---- MODULE Spec2Model ----
(***************************************************************************)
(* The VIP endpoints of the Cherry controller's UI API (api/ui/vip.go):    *)
(* listVIP, addVIP, removeVIP and toggleVIP, run by concurrent request     *)
(* handlers against one transactional store, one session store and one     *)
(* ARP announcer.                                                          *)
(*                                                                         *)
(* Spec runs the handlers side by side on a small set of requests.  SeqSpec *)
(* runs one handler on a wider set of requests, NetSpec adds what the      *)
(* network last heard for each address, and FairSpec adds fair scheduling. *)
(*                                                                         *)
(* Every handler is cut into the steps at which it calls a collaborator:   *)
(* decoding (with the parameter's validate), the session lookup, the       *)
(* store transaction, the announcement, and the final response.  Steps of  *)
(* different handlers interleave freely; a transaction is one atomic step. *)
(* trace[h] is the ordered list of the calls handler h has made so far for *)
(* its current request (session lookup, begin/commit/rollback, announce,   *)
(* response write).                                                        *)
(*                                                                         *)
(* The store (VIPTransaction's implementation), the session store and the  *)
(* announcer are not part of vip.go: they are modelled from the interface  *)
(* comments of vip.go and from the specification's sections 3, 4 and 6.    *)
(***************************************************************************)
EXTENDS Integers, Sequences, FiniteSets

(***************************************************************************)
(* Bounds and program constants                                            *)
(***************************************************************************)

\* The request handlers that can run at the same time.
Handlers == {"h1", "h2"}

\* The store assigns VIP ids 1, 2, ...; no more than MaxVIPID are ever assigned.
MaxVIPID == 2

\* len(r.SessionID) != 64
SessionIDLen == 64

\* utf8.RuneCountInString(r.Description) > 255
MaxDescription == 255

\* The hosts the storage layer knows, by id: each one's MAC address.
HostMAC == <<"02:00:00:00:00:01", "02:00:00:00:00:02">>

\* The IP resources the storage layer knows, by ip_id: each one's address.
IPAddr == <<"10.0.0.1", "10.0.0.2">>

\* network.NullMAC.String()
NullMAC == "00:00:00:00:00:00"

HostIDs == DOMAIN HostMAC
IPIDs == DOMAIN IPAddr

\* A string is a sequence of runs; the run Chars(c, w, n) is the character c,
\* whose UTF-8 encoding takes w bytes, n times over.
Chars(c, w, n) == <<[char |-> c, width |-> w, count |-> n]>>

RECURSIVE len(_)
\* Go's len(s): the number of bytes of s.
len(s) == IF s = <<>> THEN 0 ELSE Head(s).width * Head(s).count + len(Tail(s))

RECURSIVE RuneCountInString(_)
\* utf8.RuneCountInString(s): the number of code points of s.
RuneCountInString(s) == IF s = <<>> THEN 0 ELSE Head(s).count + RuneCountInString(Tail(s))

\* Session tokens a client may send.  Two are 64 ASCII characters (the first
\* one is logged in, the second one is not), one is a character short, one a
\* character long, and one is 32 two-byte characters: 64 bytes.
KnownToken == Chars("a", 1, SessionIDLen)
UnknownToken == Chars("b", 1, SessionIDLen)
ShortToken == Chars("a", 1, SessionIDLen - 1)
LongToken == Chars("a", 1, SessionIDLen + 1)
WideToken == Chars("e", 2, SessionIDLen \div 2)
Tokens == {KnownToken, UnknownToken, ShortToken, LongToken, WideToken}

\* The session store: token -> user id.
Sessions == [t \in {KnownToken} |-> 1]

\* The descriptions a client may send: 255 two-byte characters, and 256
\* one-byte characters.
Descriptions == {Chars("d", 2, MaxDescription), Chars("d", 1, MaxDescription + 1)}

(***************************************************************************)
(* Status codes of api.Response                                            *)
(***************************************************************************)
StatusOkay == "StatusOkay"
StatusInvalidParameter == "StatusInvalidParameter"
StatusUnknownSession == "StatusUnknownSession"
StatusDuplicated == "StatusDuplicated"
StatusNotFound == "StatusNotFound"
StatusInternalServerError == "StatusInternalServerError"

Statuses == {StatusOkay, StatusInvalidParameter, StatusUnknownSession,
             StatusDuplicated, StatusNotFound, StatusInternalServerError}

(***************************************************************************)
(* Requests                                                                *)
(***************************************************************************)
ListRequests ==
    [op : {"list"}, session_id : Tokens, limit : 0..1]

AddRequests ==
    [op : {"add"}, session_id : Tokens, ip_id : IPIDs,
     active_host_id : 0..Len(HostMAC), standby_host_id : 0..Len(HostMAC),
     description : Descriptions]

RemoveRequests ==
    [op : {"remove"}, session_id : Tokens, id : 0..MaxVIPID]

ToggleRequests ==
    [op : {"toggle"}, session_id : Tokens, id : 0..MaxVIPID]

Requests == ListRequests \cup AddRequests \cup RemoveRequests \cup ToggleRequests

\* Requests that also name hosts, IP resources and VIPs the storage layer has
\* never heard of, limits on either side of 0, and descriptions on either
\* side of the limit: none, and 255 one-byte characters.
WideDescriptions == Descriptions \cup {<<>>, Chars("d", 1, MaxDescription)}

WideListRequests ==
    [op : {"list"}, session_id : Tokens, limit : -1..2]

WideAddRequests ==
    [op : {"add"}, session_id : Tokens, ip_id : 0..(Len(IPAddr) + 1),
     active_host_id : 0..(Len(HostMAC) + 1), standby_host_id : 0..(Len(HostMAC) + 1),
     description : WideDescriptions]

WideRemoveRequests ==
    [op : {"remove"}, session_id : Tokens, id : 0..(MaxVIPID + 1)]

WideToggleRequests ==
    [op : {"toggle"}, session_id : Tokens, id : 0..(MaxVIPID + 1)]

WideRequests ==
    WideListRequests \cup WideAddRequests \cup WideRemoveRequests \cup WideToggleRequests

NoRequest == [op |-> "none"]

(***************************************************************************)
(* Parameter validation: "" is a nil error                                 *)
(***************************************************************************)
\* listVIPParam.validate without the check of the pagination limit.
listVIPParam_validate_AnyLimit(p) ==
    IF len(p.session_id) # SessionIDLen THEN "invalid session id"
    ELSE ""

listVIPParam_validate(p) ==
    IF len(p.session_id) # SessionIDLen THEN "invalid session id"
    ELSE IF p.limit = 0 THEN "invalid pagination limit"
    ELSE ""

\* addVIPParam.validate without the check that the two hosts differ.
addVIPParam_validate_SameHost(p) ==
    IF len(p.session_id) # SessionIDLen THEN "invalid session id"
    ELSE IF p.active_host_id = 0 THEN "invalid active host id"
    ELSE IF p.standby_host_id = 0 THEN "invalid standby host id"
    ELSE IF RuneCountInString(p.description) > MaxDescription THEN "too long description"
    ELSE ""

\* addVIPParam.validate without the check of the standby host id.
addVIPParam_validate_AnyStandby(p) ==
    IF len(p.session_id) # SessionIDLen THEN "invalid session id"
    ELSE IF p.active_host_id = 0 THEN "invalid active host id"
    ELSE IF p.active_host_id = p.standby_host_id THEN "same host for the active and standby"
    ELSE IF RuneCountInString(p.description) > MaxDescription THEN "too long description"
    ELSE ""

\* addVIPParam.validate measuring the description with len: in bytes.
addVIPParam_validate_Bytes(p) ==
    IF len(p.session_id) # SessionIDLen THEN "invalid session id"
    ELSE IF p.active_host_id = 0 THEN "invalid active host id"
    ELSE IF p.standby_host_id = 0 THEN "invalid standby host id"
    ELSE IF p.active_host_id = p.standby_host_id THEN "same host for the active and standby"
    ELSE IF len(p.description) > MaxDescription THEN "too long description"
    ELSE ""

addVIPParam_validate(p) ==
    IF len(p.session_id) # SessionIDLen THEN "invalid session id"
    ELSE IF p.active_host_id = 0 THEN "invalid active host id"
    ELSE IF p.standby_host_id = 0 THEN "invalid standby host id"
    ELSE IF p.active_host_id = p.standby_host_id THEN "same host for the active and standby"
    ELSE IF RuneCountInString(p.description) > MaxDescription THEN "too long description"
    ELSE ""

removeVIPParam_validate(p) ==
    IF len(p.session_id) # SessionIDLen THEN "invalid session id"
    ELSE IF p.id = 0 THEN "invalid VIP id"
    ELSE ""

\* toggleVIPParam.validate with a session id check that lets longer ids pass.
toggleVIPParam_validate_AtMost(p) ==
    IF len(p.session_id) < SessionIDLen THEN "invalid session id"
    ELSE IF p.id = 0 THEN "invalid VIP id"
    ELSE ""

toggleVIPParam_validate(p) ==
    IF len(p.session_id) # SessionIDLen THEN "invalid session id"
    ELSE IF p.id = 0 THEN "invalid VIP id"
    ELSE ""

\* json.Unmarshal(data, &v): every numeric field of the parameters is
\* unsigned, a negative number is not decoded.
json_Unmarshal(p) ==
    IF p.op = "list" /\ p.limit < 0
    THEN "json: cannot unmarshal number into Go struct field of an unsigned type"
    ELSE ""

\* req.DecodeJsonPayload(p): UnmarshalJSON ends with the parameter's validate.
DecodeJsonPayload(p) ==
    IF json_Unmarshal(p) # "" THEN json_Unmarshal(p)
    ELSE CASE p.op = "list" -> listVIPParam_validate(p)
           [] p.op = "add" -> addVIPParam_validate(p)
           [] p.op = "remove" -> removeVIPParam_validate(p)
           [] p.op = "toggle" -> toggleVIPParam_validate(p)

(***************************************************************************)
(* The store: a set of rows, one per VIP                                   *)
(***************************************************************************)
VARIABLES
    store,    \* the VIP rows: [id, ip_id, active, standby, description]
    nextID,   \* the id the store assigns to the next VIP
    pc,       \* pc[h]: where handler h stands in its request
    req,      \* req[h]: the decoded parameter of handler h's request
    vip,      \* vip[h]: the handler's local variable vip
    trace,    \* trace[h]: the calls handler h has made for its request
    lastAnnounced  \* lastAnnounced[ip]: the MAC last announced for ip, "" if none

vars == <<store, nextID, pc, req, vip, trace, lastAnnounced>>

\* A nil *VIP.
Nil == [id |-> 0]

Host(h) == [id |-> h, mac |-> HostMAC[h]]

\* The VIP a row is returned as.
ToVIP(row) ==
    [id |-> row.id, ip |-> IPAddr[row.ip_id],
     active_host |-> Host(row.active), standby_host |-> Host(row.standby),
     description |-> row.description]

RowOf(s, id) == CHOOSE row \in s : row.id = id

\* The rows of s in the order of their ids.
RECURSIVE Ordered(_)
Ordered(s) ==
    IF s = {} THEN <<>>
    ELSE LET first == CHOOSE row \in s : \A other \in s : row.id <= other.id
         IN <<first>> \o Ordered(s \ {first})

\* Each store operation returns [store, nextID, vip, duplicated, err]:
\* the store it leaves, and what it returns to the caller.
Result(s, n, v, dup, err) ==
    [store |-> s, nextID |-> n, vip |-> v, duplicated |-> dup, err |-> err]

\* VIPs(Pagination): the first limit VIPs.
VIPs(s, n, limit) ==
    LET all == Ordered(s)
        page == [i \in 1..(IF limit < Len(all) THEN limit ELSE Len(all)) |-> ToVIP(all[i])]
    IN Result(s, n, [id |-> 0, list |-> page], FALSE, FALSE)

\* AddVIP(requesterID, ipID, activeID, standbyID, desc)
AddVIP(s, n, requesterID, ipID, activeID, standbyID, desc) ==
    IF ipID \notin IPIDs \/ activeID \notin HostIDs \/ standbyID \notin HostIDs
    THEN Result(s, n, Nil, FALSE, TRUE)
    ELSE IF \E row \in s : row.ip_id = ipID
    THEN Result(s, n, Nil, TRUE, FALSE)
    ELSE LET row == [id |-> n, ip_id |-> ipID, active |-> activeID,
                     standby |-> standbyID, description |-> desc]
         IN Result(s \cup {row}, n + 1, ToVIP(row), FALSE, FALSE)

\* RemoveVIP(requesterID, vipID): the VIP before removing, nil if it does not exist.
RemoveVIP(s, n, requesterID, vipID) ==
    IF \E row \in s : row.id = vipID
    THEN Result(s \ {RowOf(s, vipID)}, n, ToVIP(RowOf(s, vipID)), FALSE, FALSE)
    ELSE Result(s, n, Nil, FALSE, FALSE)

\* ToggleVIP(requesterID, vipID): swaps the active and the standby host and
\* returns the VIP as swapped, nil if it does not exist.
ToggleVIP(s, n, requesterID, vipID) ==
    IF \E row \in s : row.id = vipID
    THEN LET old == RowOf(s, vipID)
             new == [old EXCEPT !.active = old.standby, !.standby = old.active]
         IN Result((s \ {old}) \cup {new}, n, ToVIP(new), FALSE, FALSE)
    ELSE Result(s, n, Nil, FALSE, FALSE)

\* toggleVIP with the closure of removeVIP: it calls tx.RemoveVIP.
Closure_ToggleRemoves(p, user, s, n) ==
    CASE p.op = "list" -> VIPs(s, n, p.limit)
      [] p.op = "add" -> AddVIP(s, n, user, p.ip_id, p.active_host_id,
                                p.standby_host_id, p.description)
      [] p.op = "remove" -> RemoveVIP(s, n, user, p.id)
      [] p.op = "toggle" -> RemoveVIP(s, n, user, p.id)

\* The closure f a handler hands to r.DB.Exec: its one call of the transaction.
Closure(p, user, s, n) ==
    CASE p.op = "list" -> VIPs(s, n, p.limit)
      [] p.op = "add" -> AddVIP(s, n, user, p.ip_id, p.active_host_id,
                                p.standby_host_id, p.description)
      [] p.op = "remove" -> RemoveVIP(s, n, user, p.id)
      [] p.op = "toggle" -> ToggleVIP(s, n, user, p.id)

(***************************************************************************)
(* Trace events                                                            *)
(***************************************************************************)
NoData == [kind |-> "none"]
VIPData(v) == [kind |-> "vip", vip |-> v]
ListData(l) == [kind |-> "list", vips |-> l]

\* w.Write(api.Response{Status: status, Data: data})
Write(status, data) == [kind |-> "write", status |-> status, data |-> data]
\* r.session.Get(p.SessionID)
Get(found) == [kind |-> "get", found |-> found]
\* r.DB.Exec(f): the transaction begins, then commits or rolls back.
Begin == [kind |-> "begin"]
Commit(before, v, dup) ==
    [kind |-> "commit", before |-> before, vip |-> v, duplicated |-> dup]
Rollback == [kind |-> "rollback"]
\* r.announce(ip, mac)
Announce(ip, mac, ok) == [kind |-> "announce", ip |-> ip, mac |-> mac, ok |-> ok]

(***************************************************************************)
(* The initial state: an empty store, every handler idle                   *)
(***************************************************************************)
Init ==
    /\ store = {}
    /\ nextID = 1
    /\ pc = [h \in Handlers |-> "idle"]
    /\ req = [h \in Handlers |-> NoRequest]
    /\ vip = [h \in Handlers |-> Nil]
    /\ trace = [h \in Handlers |-> <<>>]
    /\ lastAnnounced = [ip \in {IPAddr[i] : i \in IPIDs} |-> ""]

\* The Add requests that may still be given an id by the store.
PendingAdds == {h \in Handlers : req[h].op = "add" /\ pc[h] \in {"session", "exec"}}

\* Lines 59-64 of listVIP, and the same lines of addVIP, removeVIP, toggleVIP:
\* the parameter, one of the requests R, is decoded and validated.
DecodeFrom(h, R) ==
    /\ pc[h] = "idle"
    /\ \E p \in R :
        /\ p.op = "add" => nextID + Cardinality(PendingAdds) <= MaxVIPID
        /\ req' = [req EXCEPT ![h] = p]
        /\ IF DecodeJsonPayload(p) # ""
           THEN /\ trace' = [trace EXCEPT ![h] = <<Write(StatusInvalidParameter, NoData)>>]
                /\ pc' = [pc EXCEPT ![h] = "done"]
           ELSE /\ trace' = [trace EXCEPT ![h] = <<>>]
                /\ pc' = [pc EXCEPT ![h] = "session"]
    /\ UNCHANGED <<store, nextID, vip, lastAnnounced>>

Decode(h) == DecodeFrom(h, Requests)

\* A handler that looks the session up and goes on whatever the lookup says.
SessionGet_Unchecked(h) ==
    /\ pc[h] = "session"
    /\ trace' = [trace EXCEPT ![h] = @ \o <<Get(req[h].session_id \in DOMAIN Sessions)>>]
    /\ pc' = [pc EXCEPT ![h] = "exec"]
    /\ UNCHANGED <<store, nextID, req, vip, lastAnnounced>>

\* r.session.Get(p.SessionID) and the unknown-session return.
SessionGet(h) ==
    /\ pc[h] = "session"
    /\ IF req[h].session_id \in DOMAIN Sessions
       THEN /\ trace' = [trace EXCEPT ![h] = @ \o <<Get(TRUE)>>]
            /\ pc' = [pc EXCEPT ![h] = "exec"]
       ELSE /\ trace' = [trace EXCEPT ![h] =
                           @ \o <<Get(FALSE), Write(StatusUnknownSession, NoData)>>]
            /\ pc' = [pc EXCEPT ![h] = "done"]
    /\ UNCHANGED <<store, nextID, req, vip, lastAnnounced>>

\* removeVIP and toggleVIP without the vip == nil return: the handler answers
\* StatusOkay for a VIP that does not exist.
AfterCommit_NilIsOkay(p, res) ==
    CASE p.op = "list" ->
           [pc |-> "done", trace |-> <<Write(StatusOkay, ListData(res.vip.list))>>]
      [] p.op = "add" ->
           IF res.duplicated
           THEN [pc |-> "done", trace |-> <<Write(StatusDuplicated, NoData)>>]
           ELSE [pc |-> "announce", trace |-> <<>>]
      [] p.op \in {"remove", "toggle"} ->
           IF res.vip = Nil
           THEN [pc |-> "done", trace |-> <<Write(StatusOkay, NoData)>>]
           ELSE [pc |-> "announce", trace |-> <<>>]

\* addVIP without the duplicated return: the handler answers StatusOkay with
\* the nil VIP.
AfterCommit_DuplicatedIsOkay(p, res) ==
    CASE p.op = "list" ->
           [pc |-> "done", trace |-> <<Write(StatusOkay, ListData(res.vip.list))>>]
      [] p.op = "add" ->
           IF res.duplicated
           THEN [pc |-> "done", trace |-> <<Write(StatusOkay, VIPData(res.vip))>>]
           ELSE [pc |-> "announce", trace |-> <<>>]
      [] p.op \in {"remove", "toggle"} ->
           IF res.vip = Nil
           THEN [pc |-> "done", trace |-> <<Write(StatusNotFound, NoData)>>]
           ELSE [pc |-> "announce", trace |-> <<>>]

\* addVIP, removeVIP and toggleVIP answering StatusOkay as soon as the
\* transaction has committed, before they announce.
AfterCommit_RespondFirst(p, res) ==
    CASE p.op = "list" ->
           [pc |-> "done", trace |-> <<Write(StatusOkay, ListData(res.vip.list))>>]
      [] p.op = "add" ->
           IF res.duplicated
           THEN [pc |-> "done", trace |-> <<Write(StatusDuplicated, NoData)>>]
           ELSE [pc |-> "announce", trace |-> <<Write(StatusOkay, VIPData(res.vip))>>]
      [] p.op \in {"remove", "toggle"} ->
           IF res.vip = Nil
           THEN [pc |-> "done", trace |-> <<Write(StatusNotFound, NoData)>>]
           ELSE [pc |-> "announce", trace |-> <<Write(StatusOkay, NoData)>>]

\* listVIP answering StatusOkay without the VIPs it has read.
AfterCommit_ListNoData(p, res) ==
    CASE p.op = "list" ->
           [pc |-> "done", trace |-> <<Write(StatusOkay, NoData)>>]
      [] p.op = "add" ->
           IF res.duplicated
           THEN [pc |-> "done", trace |-> <<Write(StatusDuplicated, NoData)>>]
           ELSE [pc |-> "announce", trace |-> <<>>]
      [] p.op \in {"remove", "toggle"} ->
           IF res.vip = Nil
           THEN [pc |-> "done", trace |-> <<Write(StatusNotFound, NoData)>>]
           ELSE [pc |-> "announce", trace |-> <<>>]

\* What a handler does once its transaction has committed, up to its next
\* call of a collaborator: [pc, trace] where trace is what it writes.
AfterCommit(p, res) ==
    CASE p.op = "list" ->
           [pc |-> "done", trace |-> <<Write(StatusOkay, ListData(res.vip.list))>>]
      [] p.op = "add" ->
           IF res.duplicated
           THEN [pc |-> "done", trace |-> <<Write(StatusDuplicated, NoData)>>]
           ELSE [pc |-> "announce", trace |-> <<>>]
      [] p.op \in {"remove", "toggle"} ->
           IF res.vip = Nil
           THEN [pc |-> "done", trace |-> <<Write(StatusNotFound, NoData)>>]
           ELSE [pc |-> "announce", trace |-> <<>>]

\* The record a transaction finds for the request before it acts.
Before(p, s) ==
    CASE p.op \in {"remove", "toggle"} /\ (\E row \in s : row.id = p.id) ->
           ToVIP(RowOf(s, p.id))
      [] p.op = "add" /\ (\E row \in s : row.ip_id = p.ip_id) ->
           ToVIP(CHOOSE row \in s : row.ip_id = p.ip_id)
      [] OTHER -> Nil

\* A handler that runs the transaction again when r.DB.Exec(f) failed, and
\* answers StatusInternalServerError when it fails again.
AfterError_Retry(p) ==
    [pc |-> "done",
     trace |-> <<Begin, Rollback, Write(StatusInternalServerError, NoData)>>]

\* What a handler does when r.DB.Exec(f) returns an error.
AfterError(p) ==
    [pc |-> "done", trace |-> <<Write(StatusInternalServerError, NoData)>>]

\* A closure f that announces from within the transaction.
Committed_AnnounceInside(p, before, v, dup) ==
    IF p.op # "list" /\ ~dup /\ v # Nil
    THEN <<Begin, Announce(v.ip, v.active_host.mac, TRUE), Commit(before, v, dup)>>
    ELSE <<Begin, Commit(before, v, dup)>>

\* The calls r.DB.Exec(f) makes when f returns no error and the store commits:
\* f makes its one call of the transaction, and nothing else.
Committed(p, before, v, dup) == <<Begin, Commit(before, v, dup)>>

\* r.DB.Exec(f) and what follows it up to the announcement: the transaction
\* fails (f returns an error, or the store does) and leaves the store as it
\* was, or it commits.
Exec(h) ==
    /\ pc[h] = "exec"
    /\ \E fail \in BOOLEAN :
        LET p == req[h]
            res == Closure(p, Sessions[p.session_id], store, nextID)
        IN IF fail \/ res.err
           THEN /\ trace' = [trace EXCEPT ![h] =
                               @ \o <<Begin, Rollback>> \o AfterError(p).trace]
                /\ pc' = [pc EXCEPT ![h] = AfterError(p).pc]
                /\ UNCHANGED <<store, nextID, vip>>
           ELSE /\ store' = res.store
                /\ nextID' = res.nextID
                /\ vip' = [vip EXCEPT ![h] = IF p.op = "list" THEN Nil ELSE res.vip]
                /\ trace' = [trace EXCEPT ![h] =
                               @ \o Committed(p, Before(p, store), vip'[h], res.duplicated)
                                 \o AfterCommit(p, res).trace]
                /\ pc' = [pc EXCEPT ![h] = AfterCommit(p, res).pc]
    /\ UNCHANGED <<req, lastAnnounced>>

\* toggleVIP announcing the null MAC, as removeVIP does.
AnnouncedMAC_Null(p, v) ==
    CASE p.op = "add" -> v.active_host.mac
      [] p.op = "remove" -> NullMAC
      [] p.op = "toggle" -> NullMAC

\* toggleVIP announcing the host that has just become the standby.
AnnouncedMAC_Stale(p, v) ==
    CASE p.op = "add" -> v.active_host.mac
      [] p.op = "remove" -> NullMAC
      [] p.op = "toggle" -> v.standby_host.mac

\* removeVIP announcing the active host of the VIP it has removed.
AnnouncedMAC_RemoveActive(p, v) ==
    CASE p.op = "add" -> v.active_host.mac
      [] p.op = "remove" -> v.active_host.mac
      [] p.op = "toggle" -> v.active_host.mac

\* The MAC a handler announces for its VIP's IP.
AnnouncedMAC(p, v) ==
    CASE p.op = "add" -> v.active_host.mac
      [] p.op = "remove" -> NullMAC
      [] p.op = "toggle" -> v.active_host.mac

\* A handler that stops for good when r.announce fails: it never responds.
DoAnnounce_StopOnError(h) ==
    /\ pc[h] = "announce"
    /\ \E ok \in BOOLEAN :
        /\ trace' = [trace EXCEPT ![h] =
                       @ \o <<Announce(vip[h].ip, AnnouncedMAC(req[h], vip[h]), ok)>>]
        /\ pc' = [pc EXCEPT ![h] = IF ok THEN "respond" ELSE "stopped"]
    /\ UNCHANGED <<store, nextID, req, vip>>

\* r.announce(vip.IP, mac): it succeeds or fails; the error is only logged.
DoAnnounce(h) ==
    /\ pc[h] = "announce"
    /\ \E ok \in BOOLEAN :
        trace' = [trace EXCEPT ![h] =
                    @ \o <<Announce(vip[h].ip, AnnouncedMAC(req[h], vip[h]), ok)>>]
    /\ pc' = [pc EXCEPT ![h] = "respond"]
    /\ UNCHANGED <<store, nextID, req, vip>>

\* The response of a request that went through: its status and data.
OkayResponse(p, v) ==
    CASE p.op = "add" -> Write(StatusOkay, VIPData(v))
      [] p.op = "remove" -> Write(StatusOkay, NoData)
      [] p.op = "toggle" -> Write(StatusOkay, NoData)

\* A handler that reports a failed announcement to the caller.
Respond_AnnounceError(h) ==
    /\ pc[h] = "respond"
    /\ trace' = [trace EXCEPT ![h] =
                   @ \o <<IF trace[h][Len(trace[h])].ok
                          THEN OkayResponse(req[h], vip[h])
                          ELSE Write(StatusInternalServerError, NoData)>>]
    /\ pc' = [pc EXCEPT ![h] = "done"]
    /\ UNCHANGED <<store, nextID, req, vip, lastAnnounced>>

\* The last w.Write of addVIP, removeVIP and toggleVIP.
Respond(h) ==
    /\ pc[h] = "respond"
    /\ trace' = [trace EXCEPT ![h] = @ \o <<OkayResponse(req[h], vip[h])>>]
    /\ pc' = [pc EXCEPT ![h] = "done"]
    /\ UNCHANGED <<store, nextID, req, vip, lastAnnounced>>

\* The handler returns; it is free to serve the next request.
Return(h) ==
    /\ pc[h] = "done"
    /\ pc' = [pc EXCEPT ![h] = "idle"]
    /\ req' = [req EXCEPT ![h] = NoRequest]
    /\ vip' = [vip EXCEPT ![h] = Nil]
    /\ trace' = [trace EXCEPT ![h] = <<>>]
    /\ UNCHANGED <<store, nextID, lastAnnounced>>

\* The handlers running side by side.  What the network last heard is not
\* recorded here (see NetSpec): lastAnnounced stays as it is.
Next ==
    \E h \in Handlers :
        \/ Decode(h)
        \/ SessionGet(h)
        \/ Exec(h)
        \/ DoAnnounce(h) /\ UNCHANGED lastAnnounced
        \/ Respond(h)
        \/ Return(h)

Spec == Init /\ [][Next]_vars

(***************************************************************************)
(* One client sending the wide requests one after the other                *)
(***************************************************************************)
SeqNext ==
    \/ DecodeFrom("h1", WideRequests)
    \/ SessionGet("h1")
    \/ Exec("h1")
    \/ DoAnnounce("h1") /\ UNCHANGED lastAnnounced
    \/ Respond("h1")
    \/ Return("h1")

SeqSpec == Init /\ [][SeqNext]_vars

(***************************************************************************)
(* The network: what it last heard for each address.  The requests are the *)
(* valid Add, Remove and Toggle requests of a logged-in user, and no       *)
(* announcement fails.                                                     *)
(***************************************************************************)
NetRequests ==
    {p \in AddRequests \cup RemoveRequests \cup ToggleRequests :
        p.session_id = KnownToken /\ DecodeJsonPayload(p) = ""}

\* The announcement of handler h reaches the network.
Heard(h) ==
    /\ trace'[h][Len(trace'[h])].ok
    /\ lastAnnounced' = [lastAnnounced EXCEPT
                            ![vip[h].ip] = AnnouncedMAC(req[h], vip[h])]

NetNext ==
    \E h \in Handlers :
        \/ DecodeFrom(h, NetRequests)
        \/ SessionGet(h)
        \/ Exec(h)
        \/ DoAnnounce(h) /\ Heard(h)
        \/ Respond(h)
        \/ Return(h)

NetSpec == Init /\ [][NetNext]_vars

(***************************************************************************)
(* Reading a handler's trace                                               *)
(***************************************************************************)
\* The places in handler h's trace of the calls of kind k.
Kinds(h, k) == {i \in DOMAIN trace[h] : trace[h][i].kind = k}

\* The last call handler h made: once it is done, its response.
LastEvent(h) == trace[h][Len(trace[h])]

\* Handler h acts in this step.
Acts(h) == pc'[h] # pc[h]

Mutating == {"add", "remove", "toggle"}

(***************************************************************************)
(* C1.  An Add, Remove or Toggle request that ends with StatusOkay has     *)
(* called the announcer exactly once: Add with the IP of the request's     *)
(* ip_id and the MAC of the created record's active host, Remove with the  *)
(* removed record's IP and the null MAC, Toggle with the record's IP and   *)
(* the MAC of the active host after the swap (the standby host before it). *)
(***************************************************************************)
C1_AnnouncedExactlyOnce ==
    \A h \in Handlers :
        (pc[h] = "done" /\ req[h].op \in Mutating /\ LastEvent(h).status = StatusOkay) =>
            /\ Cardinality(Kinds(h, "announce")) = 1
            /\ Cardinality(Kinds(h, "commit")) = 1
            /\ \A i \in Kinds(h, "announce"), j \in Kinds(h, "commit") :
                 LET a == trace[h][i]
                     c == trace[h][j]
                 IN CASE req[h].op = "add" ->
                           /\ a.ip = c.vip.ip
                           /\ a.ip = IPAddr[req[h].ip_id]
                           /\ a.mac = c.vip.active_host.mac
                           /\ a.mac = HostMAC[req[h].active_host_id]
                      [] req[h].op = "remove" ->
                           /\ a.ip = c.before.ip
                           /\ a.mac = NullMAC
                      [] req[h].op = "toggle" ->
                           /\ a.ip = c.before.ip
                           /\ a.mac = c.vip.active_host.mac
                           /\ a.mac = c.before.standby_host.mac

\* A Toggle and a Remove have both ended with StatusOkay.
C1_Witness ==
    \E h1, h2 \in Handlers :
        /\ pc[h1] = "done" /\ req[h1].op = "toggle" /\ LastEvent(h1).status = StatusOkay
        /\ pc[h2] = "done" /\ req[h2].op = "remove" /\ LastEvent(h2).status = StatusOkay

(***************************************************************************)
(* C2.  Every announcer call of a request comes after the commit of that   *)
(* request's transaction, and only when the transaction was an Add that    *)
(* was not duplicated, or a Remove or a Toggle that found its record; no   *)
(* call of the transaction (begin, commit, rollback) comes after it.       *)
(***************************************************************************)
C2_AnnounceAfterCommit ==
    \A h \in Handlers :
        \A i \in Kinds(h, "announce") :
            /\ req[h].op \in Mutating
            /\ Kinds(h, "rollback") = {}
            /\ \E j \in Kinds(h, "commit") :
                 /\ j < i
                 /\ ~trace[h][j].duplicated
                 /\ trace[h][j].vip # Nil
                 /\ req[h].op \in {"remove", "toggle"} => trace[h][j].before # Nil
            /\ \A j \in Kinds(h, "begin") \cup Kinds(h, "commit") : j < i

\* A handler has announced and has not answered yet.
C2_Witness ==
    \E h \in Handlers : pc[h] = "respond" /\ Kinds(h, "announce") # {}

(***************************************************************************)
(* C3.  As claimed: every request whose session token is not in the        *)
(* session store ends with StatusUnknownSession.                           *)
(***************************************************************************)
C3_AlwaysUnknownSession ==
    \A h \in Handlers :
        (pc[h] = "done" /\ req[h].session_id \notin DOMAIN Sessions) =>
            LastEvent(h).status = StatusUnknownSession

\* What holds of handler h while it serves a request whose session token is
\* not in the session store.
C3_Unauthorized(h) ==
    (pc[h] # "idle" /\ req[h].session_id \notin DOMAIN Sessions) =>
        /\ pc[h] \in {"session", "done"}
        /\ Kinds(h, "begin") \cup Kinds(h, "commit") \cup Kinds(h, "announce") = {}
        /\ pc[h] = "done" =>
             LastEvent(h) = Write(IF DecodeJsonPayload(req[h]) = ""
                                  THEN StatusUnknownSession
                                  ELSE StatusInvalidParameter, NoData)

(***************************************************************************)
(* C3, amended.  A request whose session token is not in the session       *)
(* store never opens a transaction, never changes the store and never      *)
(* calls the announcer; it ends with StatusUnknownSession when its         *)
(* parameter is valid, and with StatusInvalidParameter when it is not.     *)
(***************************************************************************)
C3_UnknownSessionTouchesNothing ==
    [][\A h \in Handlers :
         Acts(h) =>
            /\ C3_Unauthorized(h)'
            /\ (pc'[h] # "idle" /\ req'[h].session_id \notin DOMAIN Sessions) =>
                 (store' = store /\ nextID' = nextID)]_vars

\* A valid request with an unknown token has been answered while the store
\* holds a VIP.
C3_Witness ==
    \E h \in Handlers :
        /\ pc[h] = "done"
        /\ req[h].session_id = UnknownToken
        /\ LastEvent(h).status = StatusUnknownSession
        /\ store # {}

(***************************************************************************)
(* C4.  As claimed: a request whose session token is not 64 characters     *)
(* long is rejected with StatusInvalidParameter before any other call.     *)
(***************************************************************************)
C4_RejectedByCharacters ==
    \A h \in Handlers :
        (pc[h] # "idle" /\ RuneCountInString(req[h].session_id) # SessionIDLen) =>
            (pc[h] = "done" /\ trace[h] = <<Write(StatusInvalidParameter, NoData)>>)

(***************************************************************************)
(* C4, amended.  For every operation, a request whose session token is not *)
(* 64 bytes long is rejected with StatusInvalidParameter, and that         *)
(* response is the only call the handler makes: no session lookup, no      *)
(* transaction, no announcement.                                           *)
(***************************************************************************)
C4_RejectedByBytes ==
    \A h \in Handlers :
        (pc[h] # "idle" /\ len(req[h].session_id) # SessionIDLen) =>
            (pc[h] = "done" /\ trace[h] = <<Write(StatusInvalidParameter, NoData)>>)

\* A Toggle with a token that is too long and a List with one that is too
\* short have been rejected.
C4_Witness ==
    \E h1, h2 \in Handlers :
        /\ pc[h1] = "done" /\ req[h1].op = "toggle" /\ req[h1].session_id = LongToken
        /\ pc[h2] = "done" /\ req[h2].op = "list" /\ req[h2].session_id = ShortToken
        /\ LastEvent(h1).status = StatusInvalidParameter
        /\ LastEvent(h2).status = StatusInvalidParameter

\* The response of a request that has announced.
C5_Outcome(h) ==
    (pc[h] = "done" /\ Kinds(h, "announce") # {}) =>
        /\ Cardinality(Kinds(h, "announce")) = 1
        /\ \A j \in Kinds(h, "commit") :
             LastEvent(h) = Write(StatusOkay,
                                  IF req[h].op = "add"
                                  THEN VIPData(trace[h][j].vip)
                                  ELSE NoData)

(***************************************************************************)
(* C5.  The announcer's result changes nothing: the step in which the      *)
(* announcer returns leaves the store as it is, a request that announced   *)
(* has announced once, and its response is StatusOkay, with the created    *)
(* VIP for Add and with no data for Remove and Toggle, whether the         *)
(* announcement succeeded or failed.                                       *)
(***************************************************************************)
C5_AnnounceFailureIgnored ==
    [][\A h \in Handlers :
         Acts(h) =>
            /\ C5_Outcome(h)'
            /\ pc[h] = "announce" =>
                 (store' = store /\ nextID' = nextID /\ pc'[h] = "respond")
            /\ pc[h] = "respond" =>
                 (store' = store /\ nextID' = nextID /\ pc'[h] = "done")]_vars

\* An Add whose announcement failed has been answered, and its record is in
\* the store.
C5_Witness ==
    \E h \in Handlers :
        /\ pc[h] = "done" /\ req[h].op = "add"
        /\ \E i \in Kinds(h, "announce") : ~trace[h][i].ok
        /\ \E row \in store : row.id = vip[h].id

\* The commit of handler h's transaction.
CommitOf(h) == trace[h][CHOOSE i \in Kinds(h, "commit") : TRUE]

\* Handler h has committed the Toggle of a VIP that exists.
Toggled(h) ==
    /\ pc[h] \in {"announce", "respond", "done"}
    /\ req[h].op = "toggle"
    /\ Kinds(h, "commit") # {}

\* What two answered Toggles of one id have announced, the second of them
\* having acted on the record the first one left.
C6_Announcements ==
    \A h1, h2 \in Handlers :
        (/\ h1 # h2 /\ Toggled(h1) /\ Toggled(h2)
         /\ pc[h1] = "done" /\ LastEvent(h1).status = StatusOkay
         /\ pc[h2] = "done" /\ LastEvent(h2).status = StatusOkay
         /\ req[h1].id = req[h2].id
         /\ CommitOf(h2).before = CommitOf(h1).vip) =>
            /\ CommitOf(h2).vip = CommitOf(h1).before
            /\ Cardinality(Kinds(h1, "announce")) = 1
            /\ Cardinality(Kinds(h2, "announce")) = 1
            /\ \A a1 \in Kinds(h1, "announce") :
                 /\ trace[h1][a1].ip = CommitOf(h1).before.ip
                 /\ trace[h1][a1].mac = CommitOf(h1).before.standby_host.mac
            /\ \A a2 \in Kinds(h2, "announce") :
                 /\ trace[h2][a2].ip = CommitOf(h1).before.ip
                 /\ trace[h2][a2].mac = CommitOf(h1).before.active_host.mac

(***************************************************************************)
(* C6.  A Toggle that commits on the record an earlier successful Toggle   *)
(* of the same id left leaves in the store, and returns, the record as it  *)
(* was before the earlier Toggle.  When both requests have ended with      *)
(* StatusOkay each has announced once: the Toggle that started from a      *)
(* record has announced that record's IP with the MAC of its standby host, *)
(* and the Toggle that restored the record has announced the IP with the   *)
(* MAC of its active host.                                                 *)
(***************************************************************************)
C6_ToggleTwiceRestores ==
    [][/\ (\E h \in Handlers : pc'[h] = "done" /\ Acts(h)) => C6_Announcements'
       /\ \A h1, h2 \in Handlers :
            (/\ h1 # h2 /\ Toggled(h1)
             /\ pc[h2] = "exec" /\ Toggled(h2)'
             /\ req[h1].id = req[h2].id
             /\ \E row \in store : ToVIP(row) = CommitOf(h1).vip) =>
                /\ CommitOf(h2)'.before = CommitOf(h1).vip
                /\ CommitOf(h2)'.vip = CommitOf(h1).before
                /\ \E row \in store' : ToVIP(row) = CommitOf(h1).before
                /\ ~\E row \in store' : ToVIP(row) = CommitOf(h1).vip
                /\ Cardinality(store') = Cardinality(store)]_vars

\* Both handlers have toggled VIP 1, one after the other.
C6_Witness ==
    \E h1, h2 \in Handlers :
        /\ h1 # h2
        /\ pc[h1] = "done" /\ req[h1].op = "toggle" /\ req[h1].id = 1
        /\ pc[h2] = "done" /\ req[h2].op = "toggle" /\ req[h2].id = 1
        /\ LastEvent(h1).status = StatusOkay
        /\ LastEvent(h2).status = StatusOkay
        /\ \E i1 \in Kinds(h1, "commit"), i2 \in Kinds(h2, "commit") :
             trace[h2][i2].before = trace[h1][i1].vip

\* Handler h runs the transaction of a Remove or a Toggle whose id names no VIP.
C7_Step(h) ==
    /\ pc[h] = "exec" /\ Acts(h)
    /\ req[h].op \in {"remove", "toggle"}
    /\ ~\E row \in store : row.id = req[h].id

(***************************************************************************)
(* C7.  As claimed: the transaction of a valid, authorized Toggle or       *)
(* Remove whose id names no VIP always ends the request with               *)
(* StatusNotFound, the store unchanged and no announcement.                *)
(***************************************************************************)
C7_AlwaysNotFound ==
    [][\A h \in Handlers :
         C7_Step(h) =>
            /\ pc'[h] = "done"
            /\ LastEvent(h)' = Write(StatusNotFound, NoData)
            /\ store' = store /\ nextID' = nextID
            /\ Kinds(h, "announce")' = {}]_vars

(***************************************************************************)
(* C7, amended.  A valid, authorized Toggle or Remove whose id names no    *)
(* VIP ends with StatusNotFound when its transaction commits and with      *)
(* StatusInternalServerError when its transaction fails, never with        *)
(* StatusOkay; either way the store is unchanged and the announcer is not  *)
(* called.                                                                 *)
(***************************************************************************)
C7_NotFoundUnlessFailed ==
    [][\A h \in Handlers :
         C7_Step(h) =>
            /\ pc'[h] = "done"
            /\ LastEvent(h)' = Write(IF Kinds(h, "rollback")' # {}
                                     THEN StatusInternalServerError
                                     ELSE StatusNotFound, NoData)
            /\ store' = store /\ nextID' = nextID
            /\ Kinds(h, "announce")' = {}]_vars

\* A Toggle and a Remove of VIPs that do not exist have ended with
\* StatusNotFound while the store holds another VIP.
C7_Witness ==
    \E h1, h2 \in Handlers :
        /\ pc[h1] = "done" /\ req[h1].op = "toggle"
        /\ pc[h2] = "done" /\ req[h2].op = "remove"
        /\ LastEvent(h1).status = StatusNotFound
        /\ LastEvent(h2).status = StatusNotFound
        /\ store # {}

\* Handler h runs the transaction of an Add for an ip_id that has a VIP.
C8_Step(h) ==
    /\ pc[h] = "exec" /\ Acts(h)
    /\ req[h].op = "add"
    /\ \E row \in store : row.ip_id = req[h].ip_id

(***************************************************************************)
(* C8.  As claimed: the transaction of a valid, authorized Add for an      *)
(* ip_id that already has a VIP always ends the request with               *)
(* StatusDuplicated and no data, the store unchanged and no announcement.  *)
(***************************************************************************)
C8_AlwaysDuplicated ==
    [][\A h \in Handlers :
         C8_Step(h) =>
            /\ pc'[h] = "done"
            /\ LastEvent(h)' = Write(StatusDuplicated, NoData)
            /\ store' = store /\ nextID' = nextID
            /\ Kinds(h, "announce")' = {}]_vars

(***************************************************************************)
(* C8, amended.  A valid, authorized Add for an ip_id that already has a   *)
(* VIP ends with StatusDuplicated when its transaction commits and with    *)
(* StatusInternalServerError when its transaction fails, never with        *)
(* StatusOkay; either way the response carries no data, the store is       *)
(* unchanged (no record is created, the existing one is as it was) and the *)
(* announcer is not called.                                                *)
(***************************************************************************)
C8_DuplicatedUnlessFailed ==
    [][\A h \in Handlers :
         C8_Step(h) =>
            /\ pc'[h] = "done"
            /\ LastEvent(h)' = Write(IF Kinds(h, "rollback")' # {}
                                     THEN StatusInternalServerError
                                     ELSE StatusDuplicated, NoData)
            /\ store' = store /\ nextID' = nextID
            /\ Kinds(h, "announce")' = {}]_vars

\* An Add for the ip_id of a VIP with the hosts the other way round has
\* ended with StatusDuplicated.
C8_Witness ==
    \E h \in Handlers :
        /\ pc[h] = "done" /\ req[h].op = "add"
        /\ LastEvent(h).status = StatusDuplicated
        /\ \E row \in store :
             row.ip_id = req[h].ip_id /\ row.active = req[h].standby_host_id

\* The transactions in the trace of handler h.
C9_Transactions(h) ==
    /\ Cardinality(Kinds(h, "begin")) <= 1
    /\ Cardinality(Kinds(h, "commit") \cup Kinds(h, "rollback")) = Cardinality(Kinds(h, "begin"))
    /\ (pc[h] \in {"announce", "respond", "done"}
          /\ \E i \in Kinds(h, "get") : trace[h][i].found) =>
             Cardinality(Kinds(h, "begin")) = 1
    /\ (\A i \in Kinds(h, "get") : ~trace[h][i].found) => Kinds(h, "begin") = {}
    /\ Kinds(h, "rollback") # {} =>
          /\ pc[h] = "done"
          /\ LastEvent(h) = Write(StatusInternalServerError, NoData)
          /\ Kinds(h, "announce") = {}
          /\ Cardinality(Kinds(h, "write")) = 1

(***************************************************************************)
(* C9.  A request begins at most one transaction, and exactly one once it  *)
(* is answered after a successful session lookup.  A transaction that      *)
(* fails is the request's last: the step leaves the store as it was, and   *)
(* the request ends there with StatusInternalServerError, no data and no   *)
(* announcement.                                                           *)
(***************************************************************************)
C9_OneTransaction ==
    [][\A h \in Handlers :
         Acts(h) =>
            /\ C9_Transactions(h)'
            /\ Kinds(h, "rollback")' # {} => (store' = store /\ nextID' = nextID)]_vars

\* The Toggle of a VIP that exists has failed in its transaction.
C9_Witness ==
    \E h \in Handlers :
        /\ pc[h] = "done" /\ req[h].op = "toggle"
        /\ Kinds(h, "rollback") # {}
        /\ \E row \in store : row.id = req[h].id

(***************************************************************************)
(* C10.  In every reachable state, every VIP of the store has an active    *)
(* host other than its standby host.                                       *)
(***************************************************************************)
C10_ActiveIsNotStandby ==
    \A row \in store : ToVIP(row).active_host.id # ToVIP(row).standby_host.id

\* The store holds two VIPs, one of which has been toggled.
C10_Witness ==
    /\ Cardinality(store) = 2
    /\ \E h \in Handlers :
         /\ pc[h] = "done" /\ req[h].op = "toggle"
         /\ LastEvent(h).status = StatusOkay
         /\ \E row \in store : row.id = req[h].id

\* Handler h has answered an Add for ip_id ip that passed validate and the
\* session lookup.
C11_Added(h, ip) ==
    /\ pc[h] = "done"
    /\ req[h].op = "add"
    /\ req[h].ip_id = ip
    /\ Kinds(h, "begin") # {}

\* The Add of handler h created a record: StatusOkay with the record, after
\* one announcement.
C11_Created(h) ==
    /\ LastEvent(h) = Write(StatusOkay, VIPData(vip[h]))
    /\ vip[h] # Nil
    /\ Cardinality(Kinds(h, "announce")) = 1

\* The Add of handler h was refused as a duplicate: no record, no announcement.
C11_Refused(h) ==
    /\ LastEvent(h) = Write(StatusDuplicated, NoData)
    /\ vip[h] = Nil
    /\ Kinds(h, "announce") = {}

\* The transaction of the Add of handler h failed: no record, no announcement.
C11_Failed(h) ==
    /\ LastEvent(h) = Write(StatusInternalServerError, NoData)
    /\ vip[h] = Nil
    /\ Kinds(h, "announce") = {}

\* No record was ever created but by the requests handlers h and g hold.
C11_NoOtherRecord(h, g) == 1..(nextID - 1) \subseteq {vip[h].id, vip[g].id}

C11_OnePerIP == \A r1, r2 \in store : r1.ip_id = r2.ip_id => r1 = r2

(***************************************************************************)
(* C11 as stated.  At most one VIP exists per ip_id; of two concurrent     *)
(* valid Adds of a logged-in user for one ip_id that has no binding,       *)
(* exactly one creates a record and ends StatusOkay with one announcement, *)
(* and the other one ends StatusDuplicated with no record and no           *)
(* announcement.  It does not hold: an Add whose transaction fails ends    *)
(* StatusInternalServerError.                                              *)
(***************************************************************************)
C11_ExactlyOneCreates ==
    /\ C11_OnePerIP
    /\ \A h, g \in Handlers : \A ip \in IPIDs :
        (h # g /\ C11_Added(h, ip) /\ C11_Added(g, ip) /\ C11_NoOtherRecord(h, g))
        => /\ C11_Created(h) \/ C11_Created(g)
           /\ C11_Created(h) => C11_Refused(g)
           /\ C11_Created(g) => C11_Refused(h)

(***************************************************************************)
(* C11.  At most one VIP exists per ip_id in every reachable state.  An    *)
(* Add that passed validate and the session lookup ends in one of three    *)
(* ways: its transaction fails (StatusInternalServerError, no record, no   *)
(* announcement); it commits and found no record for the ip_id (it creates *)
(* one record and ends StatusOkay with that record after exactly one       *)
(* announcement); it commits and found a record, also one a concurrent Add *)
(* created (StatusDuplicated, no record, no announcement).  Of two         *)
(* concurrent Adds for an ip_id without a binding, if one commits then one *)
(* creates, and both create only if the first record was removed before    *)
(* the second transaction.                                                 *)
(***************************************************************************)
C11_OneBindingPerIP ==
    /\ C11_OnePerIP
    /\ \A h \in Handlers : \A ip \in IPIDs :
        C11_Added(h, ip)
        => IF Kinds(h, "commit") = {} THEN C11_Failed(h)
           ELSE IF CommitOf(h).before = Nil
           THEN C11_Created(h) /\ IPAddr[ip] = vip[h].ip
           ELSE C11_Refused(h)
    /\ \A h, g \in Handlers : \A ip \in IPIDs :
        (h # g /\ C11_Added(h, ip) /\ C11_Added(g, ip) /\ C11_NoOtherRecord(h, g))
        => /\ (Kinds(h, "commit") # {} \/ Kinds(g, "commit") # {})
              => (C11_Created(h) \/ C11_Created(g))
           /\ (C11_Created(h) /\ C11_Created(g))
              => Cardinality({row \in store : row.id \in {vip[h].id, vip[g].id}}) <= 1

\* An Add is refused because of the record a concurrent Add has created and
\* not yet announced.
C11_Witness ==
    \E h, g \in Handlers : \E ip \in IPIDs :
        /\ h # g
        /\ C11_Added(h, ip) /\ C11_Refused(h)
        /\ pc[g] = "announce" /\ req[g].op = "add" /\ req[g].ip_id = ip
        /\ CommitOf(h).before = vip[g]

\* An Add request p that names no active host, no standby host, or one host
\* for both roles.
C12_BadHosts(p) ==
    /\ p.op = "add"
    /\ \/ p.active_host_id = 0
       \/ p.standby_host_id = 0
       \/ p.active_host_id = p.standby_host_id

(***************************************************************************)
(* C12.  An Add request whose active and standby host ids are equal, or    *)
(* one of which is 0, is rejected with StatusInvalidParameter whether or   *)
(* not the storage layer holds those hosts: the response is the one call   *)
(* its handler makes (no session lookup, no transaction, no announcement)  *)
(* and the store is left as it was.                                        *)
(***************************************************************************)
C12_BadHostsRejected ==
    [][\A h \in Handlers :
        (Acts(h) /\ C12_BadHosts(req'[h]))
        => /\ pc[h] = "idle" /\ pc'[h] = "done"
           /\ trace'[h] = <<Write(StatusInvalidParameter, NoData)>>
           /\ store' = store /\ nextID' = nextID]_vars

\* A logged-in user's Add naming, for both roles, one host the storage layer
\* does not hold has been rejected.
C12_Witness ==
    /\ pc["h1"] = "done"
    /\ C12_BadHosts(req["h1"])
    /\ req["h1"].session_id = KnownToken
    /\ req["h1"].active_host_id \notin HostIDs \cup {0}
    /\ req["h1"].description = <<>>
    /\ LastEvent("h1").status = StatusInvalidParameter

\* Handler h has rejected its request on decoding it.
C13_Rejected(h) == trace[h] = <<Write(StatusInvalidParameter, NoData)>>

\* Handler h holds an Add request whose session id and host ids pass validate.
C13_DescriptionDecides(h) ==
    /\ pc[h] # "idle"
    /\ req[h].op = "add"
    /\ len(req[h].session_id) = SessionIDLen
    /\ ~C12_BadHosts(req[h])

(***************************************************************************)
(* C13.  An Add request is rejected with StatusInvalidParameter for its    *)
(* description exactly when the description has more than 255 code points: *)
(* one of 255 code points is accepted, also when it is 510 bytes long, and *)
(* one of 256 code points is rejected.                                     *)
(***************************************************************************)
C13_TooLongByCodePoints ==
    \A h \in Handlers :
        C13_DescriptionDecides(h)
        => /\ C13_Rejected(h) <=> RuneCountInString(req[h].description) > MaxDescription
           /\ req[h].description = Chars("d", 2, MaxDescription) => ~C13_Rejected(h)
           /\ req[h].description = Chars("d", 1, MaxDescription) => ~C13_Rejected(h)
           /\ req[h].description = Chars("d", 1, MaxDescription + 1) => C13_Rejected(h)

\* A VIP whose description is 255 two-byte characters has been created.
C13_Witness ==
    /\ pc["h1"] = "done"
    /\ req["h1"].op = "add"
    /\ req["h1"].description = Chars("d", 2, MaxDescription)
    /\ len(req["h1"].description) > MaxDescription
    /\ LastEvent("h1") = Write(StatusOkay, VIPData(vip["h1"]))
    /\ vip["h1"].description = req["h1"].description

\* The store holds a record of this id.
C14_Stored(s, id) == \E row \in s : row.id = id

\* Handler h runs the transaction of a Remove or Toggle in this step.
C14_Runs(h) ==
    /\ Acts(h)
    /\ pc[h] = "exec"
    /\ req[h].op \in {"remove", "toggle"}

\* Handler g has answered StatusOkay to a Remove of this id.
C14_Removed(g, id) ==
    /\ pc[g] = "done"
    /\ req[g].op = "remove"
    /\ req[g].id = id
    /\ LastEvent(g) = Write(StatusOkay, NoData)

\* What a Remove that found its record has done: the record is gone, and the
\* one announcement on the way to StatusOkay names the record's IP and the
\* null MAC.
C14_RemoveStep(h) ==
    /\ (C14_Runs(h) /\ req[h].op = "remove" /\ pc'[h] = "announce")
       => /\ C14_Stored(store, req[h].id)
          /\ store' = store \ {RowOf(store, req[h].id)}
          /\ vip'[h] = ToVIP(RowOf(store, req[h].id))
    /\ (Acts(h) /\ C14_Removed(h, req[h].id)')
       => /\ ~C14_Stored(store', req[h].id)
          /\ \E i \in DOMAIN trace'[h] :
                /\ Kinds(h, "announce")' = {i}
                /\ trace'[h][i].ip = CommitOf(h)'.before.ip
                /\ trace'[h][i].mac = NullMAC

(***************************************************************************)
(* C14 as stated.  After a Remove of an existing id has ended StatusOkay   *)
(* the record is absent from the store, the announcement it triggered      *)
(* carries the removed record's ip and the null MAC, and every later       *)
(* Toggle or Remove of that id ends StatusNotFound with no announcement.   *)
(* It does not hold: a later request whose transaction fails ends          *)
(* StatusInternalServerError.                                              *)
(***************************************************************************)
C14_AlwaysNotFound ==
    [][\A h \in Handlers :
        /\ C14_RemoveStep(h)
        /\ \A g \in Handlers \ {h} :
            (C14_Runs(h) /\ C14_Removed(g, req[h].id))
            => /\ pc'[h] = "done"
               /\ LastEvent(h)' = Write(StatusNotFound, NoData)
               /\ Kinds(h, "announce")' = {}
               /\ store' = store]_vars

(***************************************************************************)
(* C14.  A Remove that finds its record takes it out of the store, and     *)
(* when it ends StatusOkay it has made one announcement, of the removed    *)
(* record's ip with the null MAC.  An id that was assigned and is no       *)
(* longer stored is never stored again, and every Toggle or Remove of it   *)
(* whose transaction runs from then on leaves the store as it is, makes no *)
(* announcement and ends StatusNotFound, or StatusInternalServerError when *)
(* its transaction fails.                                                  *)
(***************************************************************************)
C14_RemovedStaysRemoved ==
    [][/\ \A id \in 1..(nextID - 1) :
            ~C14_Stored(store, id) => ~C14_Stored(store', id)
       /\ \A h \in Handlers :
            /\ C14_RemoveStep(h)
            /\ (C14_Runs(h) /\ req[h].id < nextID /\ ~C14_Stored(store, req[h].id))
               => /\ pc'[h] = "done"
                  /\ \/ LastEvent(h)' = Write(StatusNotFound, NoData)
                     \/ /\ LastEvent(h)' = Write(StatusInternalServerError, NoData)
                        /\ Kinds(h, "rollback")' # {}
                  /\ Kinds(h, "announce")' = {}
                  /\ store' = store]_vars

\* A Toggle of an id has ended StatusNotFound while the handler that removed
\* the id still holds its StatusOkay.
C14_Witness ==
    \E h, g \in Handlers :
        /\ h # g
        /\ pc[h] = "done"
        /\ req[h].op = "toggle"
        /\ C14_Removed(g, req[h].id)
        /\ LastEvent(h) = Write(StatusNotFound, NoData)

(***************************************************************************)
(* C15.  A List request never changes the store and never calls the        *)
(* announcer, whatever its outcome.  When its transaction commits it ends  *)
(* StatusOkay with the sequence of VIPs that its one call of VIPs, in its  *)
(* one transaction, read from the store.                                   *)
(***************************************************************************)
C15_ListReadsOnly ==
    [][\A h \in Handlers :
        (Acts(h) /\ req'[h].op = "list")
        => /\ store' = store /\ nextID' = nextID
           /\ Kinds(h, "announce")' = {}
           /\ Cardinality(Kinds(h, "begin")') <= 1
           /\ (pc[h] = "exec" /\ Kinds(h, "commit")' # {})
              => /\ pc'[h] = "done"
                 /\ LastEvent(h)' =
                        Write(StatusOkay,
                              ListData(VIPs(store, nextID, req[h].limit).vip.list))]_vars

\* A List has ended StatusOkay with a VIP that is stored, while the other
\* handler is between its commit and its announcement.
C15_Witness ==
    \E h, g \in Handlers :
        /\ pc[h] = "done"
        /\ req[h].op = "list"
        /\ LastEvent(h).status = StatusOkay
        /\ Len(LastEvent(h).data.vips) = 1
        /\ pc[g] = "announce"

(***************************************************************************)
(* C16.  A List request whose pagination limit is not greater than 0 is    *)
(* rejected with StatusInvalidParameter: the response is the one call its  *)
(* handler makes (no session lookup, no transaction), and the store is     *)
(* left as it was.                                                         *)
(***************************************************************************)
C16_LimitRejected ==
    [][\A h \in Handlers :
        (Acts(h) /\ req'[h].op = "list" /\ ~(req'[h].limit > 0))
        => /\ pc[h] = "idle" /\ pc'[h] = "done"
           /\ trace'[h] = <<Write(StatusInvalidParameter, NoData)>>
           /\ store' = store /\ nextID' = nextID]_vars

\* A logged-in user's List with the limit 0 has been rejected.
C16_Witness ==
    /\ pc["h1"] = "done"
    /\ req["h1"].op = "list"
    /\ req["h1"].session_id = KnownToken
    /\ req["h1"].limit = 0
    /\ trace["h1"] = <<Write(StatusInvalidParameter, NoData)>>

(***************************************************************************)
(* C17.  An Add, Remove or Toggle request that owes an announcement (its   *)
(* transaction has committed a change) writes its response only after the  *)
(* announcer call has returned: it has written nothing while the call is   *)
(* still to be made, the announcement comes before the response in the     *)
(* order of its calls, and the response is the call right after it.        *)
(***************************************************************************)
C17_ResponseAfterAnnounce ==
    \A h \in Handlers :
        /\ pc[h] = "announce"
           => /\ req[h].op \in Mutating
              /\ Kinds(h, "write") = {}
              /\ Kinds(h, "announce") = {}
        /\ pc[h] = "respond"
           => /\ Kinds(h, "write") = {}
              /\ LastEvent(h).kind = "announce"
        /\ \A i \in Kinds(h, "announce") :
              /\ \A j \in Kinds(h, "write") : i < j
              /\ pc[h] = "done" => Kinds(h, "write") = {i + 1}

\* A Toggle has written its response right after its announcement returned.
C17_Witness ==
    \E h \in Handlers :
        /\ pc[h] = "done"
        /\ req[h].op = "toggle"
        /\ Len(trace[h]) > 1
        /\ trace[h][Len(trace[h]) - 1].kind = "announce"
        /\ LastEvent(h) = Write(StatusOkay, NoData)

(***************************************************************************)
(* C18.  A Toggle that finds its VIP changes only the roles: the record    *)
(* keeps its id, its ip and its description, its new active host is the    *)
(* old standby host, its new standby host is the old active host, every    *)
(* other record is unchanged, and no record is added or removed.  The      *)
(* steps of the request after its transaction leave the store alone.       *)
(***************************************************************************)
C18_ToggleSwapsRolesOnly ==
    [][\A h \in Handlers :
        (Acts(h) /\ req[h].op = "toggle")
        => IF pc[h] = "exec" /\ pc'[h] = "announce"
           THEN /\ C14_Stored(store, req[h].id) /\ C14_Stored(store', req[h].id)
                /\ LET old == RowOf(store, req[h].id)
                       new == RowOf(store', req[h].id)
                   IN /\ new.id = old.id
                      /\ new.ip_id = old.ip_id
                      /\ new.description = old.description
                      /\ new.active = old.standby
                      /\ new.standby = old.active
                      /\ store' \ {new} = store \ {old}
                      /\ Cardinality(store') = Cardinality(store)
                      /\ vip'[h] = ToVIP(new)
                /\ nextID' = nextID
           ELSE store' = store /\ nextID' = nextID]_vars

\* A Toggle has swapped the roles of one of two VIPs and has ended StatusOkay.
C18_Witness ==
    \E h \in Handlers :
        /\ pc[h] = "done"
        /\ req[h].op = "toggle"
        /\ LastEvent(h) = Write(StatusOkay, NoData)
        /\ Cardinality(store) = 2
        /\ C14_Stored(store, req[h].id)
        /\ ToVIP(RowOf(store, req[h].id)) = vip[h]

\* The MAC the network should hold for the address ip: the active host's of
\* the VIP stored for it, the null MAC if none is stored.
C19_Owner(ip) ==
    IF \E row \in store : IPAddr[row.ip_id] = ip
    THEN HostMAC[(CHOOSE row \in store : IPAddr[row.ip_id] = ip).active]
    ELSE NullMAC

(***************************************************************************)
(* C19.  In every state in which no request is in flight, no announcement  *)
(* having failed, the last announcement made for each address that was     *)
(* ever announced carries the MAC of the active host of the VIP stored for *)
(* that address, or the null MAC if no VIP is stored for it.  The handlers *)
(* do not keep this: the commit and the announcement of a request are two  *)
(* steps, and two requests can announce in the order opposite to that of   *)
(* their commits.                                                          *)
(***************************************************************************)
C19_LastAnnouncementIsOwner ==
    (\A h \in Handlers : pc[h] = "idle")
    => \A ip \in DOMAIN lastAnnounced :
          lastAnnounced[ip] # "" => lastAnnounced[ip] = C19_Owner(ip)

(***************************************************************************)
(* The handlers under fair scheduling: a handler that has a call to make   *)
(* (the session lookup, the transaction, the announcement, the response)   *)
(* makes it, each of these calls returning.  The requests are those of     *)
(* Spec that carry a session id of 64 one-byte characters and, for an Add, *)
(* a description within the limit and the last host as the standby host.   *)
(***************************************************************************)
FairRequests ==
    {p \in Requests :
        /\ p.session_id \in {KnownToken, UnknownToken}
        /\ p.op = "add" => /\ RuneCountInString(p.description) <= MaxDescription
                           /\ p.standby_host_id = Len(HostMAC)}

FairNext ==
    \E h \in Handlers :
        \/ DecodeFrom(h, FairRequests)
        \/ SessionGet(h)
        \/ Exec(h)
        \/ DoAnnounce(h) /\ UNCHANGED lastAnnounced
        \/ Respond(h)
        \/ Return(h)

FairSpec ==
    /\ Init /\ [][FairNext]_vars
    /\ \A h \in Handlers :
        WF_vars(\/ SessionGet(h)
                \/ Exec(h)
                \/ DoAnnounce(h) /\ UNCHANGED lastAnnounced
                \/ Respond(h))

\* The handlers that may answer with each status.
C20_Answers(status) ==
    CASE status = StatusDuplicated -> {"add"}
      [] status = StatusNotFound -> {"remove", "toggle"}
      [] OTHER -> {"list", "add", "remove", "toggle"}

\* Handler h has written at most one response, and none but as its last call.
C20_AtMostOne(h) ==
    /\ Cardinality(Kinds(h, "write")) <= 1
    /\ pc[h] # "done" => Kinds(h, "write") = {}
    /\ pc[h] = "done"
       => /\ Kinds(h, "write") = {Len(trace[h])}
          /\ LastEvent(h).status \in Statuses
          /\ req[h].op \in C20_Answers(LastEvent(h).status)

(***************************************************************************)
(* C20.  Every request, the session lookup, the transaction and the        *)
(* announcer each returning, eventually writes its response; it writes     *)
(* exactly one, with one status of the six, StatusDuplicated only for an   *)
(* Add and StatusNotFound only for a Remove or a Toggle.                   *)
(***************************************************************************)
C20_OneResponseEventually ==
    /\ [](\A h \in Handlers : C20_AtMostOne(h))
    /\ \A h \in Handlers :
        (pc[h] \in {"session", "exec", "announce", "respond"}) ~> (pc[h] = "done")

\* A Toggle has ended StatusNotFound and an Add StatusDuplicated.
C20_Witness ==
    \E h, g \in Handlers :
        /\ pc[h] = "done" /\ req[h].op = "toggle"
        /\ LastEvent(h).status = StatusNotFound
        /\ pc[g] = "done" /\ req[g].op = "add"
        /\ LastEvent(g).status = StatusDuplicated

====
